---- MODULE Spec2Model ----
(***************************************************************************)
(* The pulse pipeline of the SMART HEALTH MONITORING sketches: one pass of *)
(* loop() per step, for the Espbpm sketch (specification Spec) and the     *)
(* Pulsebyuno sketch (specification SpecUno).                              *)
(*                                                                         *)
(* Numbers.  The sketches compute in float.  The model computes in fixed   *)
(* point with two decimals: a float quantity x is held as the integer      *)
(* 100*x, truncated.  Times are milliseconds as in the code; every time of *)
(* the model is far below 2^32, so the unsigned subtractions do not wrap.  *)
(* The coefficients 0.92, 0.02, 1.2, 0.6 ... are held in hundredths.       *)
(***************************************************************************)
EXTENDS Integers, Sequences, FiniteSets

\* ---------------------------------------------------------------- tuning
SAMPLE_MS == 20
DC_ALPHA == 92
AUTO_GAIN_ALPHA == 2
TARGET_P2P == 1200
MAX_GAIN == 100
SMOOTH_WIN == 5
MIN_BEAT_MS == 250
BPM_MEDIAN_WINDOW == 5
BPM_AVG_WINDOW == 8
PROMINENCE_MULT == 120
FALLBACK_TIMEOUT_MS == 5000
MIN_VALID_BPM == 35
MAX_VALID_BPM == 200
RMS_ALPHA == 92
BEAT_INTERVALS == 16
PRESENCE_FLOOR == 30
THRESHOLD_FLOOR == 40
JITTER_PERIOD_MS == 1400
EXTRA_DELAY_MS == 1000
UNO_ABSENT_DELAY_MS == 100

\* The alert sketch (NodeMCU, MAX30102 and DS18B20). Temperatures are held in
\* tenths of a degree; the alert trackers are whole seconds, as in the sketch.
SPO2_THRESHOLD == 92
BPM_LOW == 45
BPM_HIGH == 130
TEMP_THRESHOLD == 380
ALERT_MIN_INTERVAL == 60
SUMMARY_INTERVAL == 300
BUFFER_SIZE == 100
DEVICE_DISCONNECTED_C == -1270

\* The buzzer of Espbpmwithdelay (BPM limits in whole beats, times in ms).
BPM_ALERT_LOW == 50
BPM_ALERT_HIGH == 120
BUZZ_PERIOD_MS == 1000
BUZZ_ON_MS == 200

\* A uint32_t is held as two 16-bit halves, hi * HALF_WORD + lo.
HALF_WORD == 65536

\* BPM_BLOOD_OXYGEN1: the smoothing window, the refractory time, the interval
\* ring, and the floor of its threshold.
LP_SIZE == 5
EDGE_MIN_BEAT_MS == 300
BEAT_BUF == 8
EDGE_THRESHOLD_FLOOR == 80
EDGE_DELAY_MS == 20

\* ---------------------------------------------------------------- bounds
\* Periodic checks of the alert sketch, and periodic tasks followed sample by
\* sample.
MaxAlertChecks == 5

\* Passes of Espbpm under a sample that swings between the presence floor and
\* near full scale, each pass busy for 280 ms: enough for eight OK records.
MaxSteadyPasses == 12

SteadyRawSet == {30, 1000}

SteadyBusySet == {280}
MaxSamplingTasks == 2

\* Passes of Espbpmwithdelay: an anchor beat, a beat that stores an interval, and
\* two more passes for the buzzer to follow.
MaxBuzzerPasses == 6

\* Lengths and samples of the IR buffer given to the Maxim algorithm: samples
\* under, at and over their mean.
MaxIrSamples == 4

IrSet == {100, 200, 300}

\* Passes of BPM_BLOOD_OXYGEN1, its samples, and the ms a pass spends before its
\* closing delay(20).
MaxEdgeTicks == 10

EdgeRawSet == {0, 1000}

EdgeBusySet == {0, 261}

\* Milliseconds between the millis() reads of two successive checks: the timer's
\* 10 s period, and longer ones when sampleMAX30102 or Blynk.run() blocked.
ElapsedSet == {10000, 49150, 60850}

\* Results of getHeartRate: none, bradycardia, normal.
HrSet == {0, 40, 72}

\* Sums <<red, IR>> of one buffer: a dark sensor, ratio 1 (SpO2 85), ratio 1/2
\* (SpO2 97).
SampleSet == {<<0, 0>>, <<100, 100>>, <<50, 100>>}

\* DS18B20 answers in tenths of a degree: disconnected, 37.0, 38.5.
TempSet == {DEVICE_DISCONNECTED_C, 370, 385}

\* Passes of loop() a behaviour makes.
MaxTicks == 6

\* Candidates the median driver pushes, and how many.
MaxMedianPushes == 6

MedianSet == {6000, 7200, 12000}

\* Pushes the ring driver makes into the interval ring (one past its capacity) and
\* into the BPM windows (one past the larger capacity); the first interval it
\* pushes (each next one is 1 ms longer, so all differ) and the candidates.
MaxIntervalPushes == 17

MaxAvgPushes == 9

DtSeeds == {300, 1000}

AvgSet == {6000, 12000}

\* Calls of smoothAvg the smoothing driver makes, and the samples it passes.
MaxSmoothPushes == 7

SmoothSet == {-7, 0, 10}

\* Periods T (ms) of the periodic peak source, and the passes it is run for:
\* two passes per period, 16 intervals stored on pass 34.
MaxPeriodicPasses == 38

PeriodSet == {300, 1000, 1670, 1700}

\* analogRead values tried: below the presence floor, at it, near full scale.
RawSet == {20, 30, 1000}

\* Milliseconds one pass of loop() spends before its closing delay.
BusySet == {0, 280, 4980}

\* Draws of random(): the low end (-1) and the high end (1) of its range.
JitterSet == {-1, 1}

VARIABLES
    status,
    dc, gainEstimate, smoothBuf, smoothPos, smoothFilled,
    lastBeatTime, lastValidBeatTime,
    beatIntervals, beatIndex, beatCount,
    bpmHistory, bpmHistIdx, bpmHistCount,
    bpmAvgWindow, bpmAvgIdx, bpmAvgCount,
    lastGoodBPM, lastGoodTime,
    rms, prev2, prev1, curr,
    lastJitter, led,
    clock, ticks,
    raw, now, peak, lastPeakTime,
    outStatus, outBPM, outConf, records,
    pushedIntervals, pushedBpm, pushedSmooth, smoothOut

\* The alert sketch: the position of its control (setup, loop, or the poll and
\* the delay of sampleMAX30102's fill loop), the globals, and what the last
\* periodic check read and sent.
VARIABLES
    taskPc, sensorFound, sampleCount, millis, checks,
    bpmValue, spo2Value, bpmValid, spo2Valid, tempC,
    lastCaretakerAlert, lastDoctorAlert, lastSummarySend,
    caretakerSent, doctorSent, alertWritten,
    caretakerAt, caretakerBefore, doctorAt, doctorBefore

VARIABLES
    buzzerOn, buzzerCycleStart, buzzerPin, alarmBPM, alarmActive, buzzerHighSince

VARIABLES
    irBuffer, irAc, peaks, heartRate, heartRateValid

VARIABLES
    edgeDc, lpBuf, lpPos, lpFilled, lastBeat, edgeIntervals, edgeIndex,
    beatsStored, edgeRms, wasAbove, edgeClock, edgeTicks, edgeNow, isAbove,
    edgeBpm

alertVars == <<taskPc, sensorFound, sampleCount, millis, checks, bpmValue,
               spo2Value, bpmValid, spo2Valid, tempC, lastCaretakerAlert,
               lastDoctorAlert, lastSummarySend, caretakerSent, doctorSent,
               alertWritten, caretakerAt, caretakerBefore, doctorAt,
               doctorBefore>>

progVars == <<status, dc, gainEstimate, smoothBuf, smoothPos, smoothFilled,
              lastBeatTime, lastValidBeatTime, beatIntervals, beatIndex,
              beatCount, bpmHistory, bpmHistIdx, bpmHistCount, bpmAvgWindow,
              bpmAvgIdx, bpmAvgCount, lastGoodBPM, lastGoodTime, rms, prev2,
              prev1, curr, lastJitter, led>>

\* What the last pass of loop() read and printed (observations, not program state):
\* the sample, the value of `now`, the peak test, the time of the peak before this
\* pass, the record printed and the number of records the pass printed.
obsVars == <<raw, now, peak, lastPeakTime, outStatus, outBPM, outConf, records>>

\* What the ring drivers below have done: the values they pushed into the interval
\* ring, into the two BPM windows and into the smoothing ring, oldest first, and the
\* value the last call of smoothAvg returned.
driverVars == <<pushedIntervals, pushedBpm, pushedSmooth, smoothOut>>

\* The buzzer of Espbpmwithdelay: its two globals, the level of BUZZER_PIN, and
\* what the last pass gave the alarm test and did to the pin (the finalBPM it
\* tested, in hundredths, the test's answer, and the time the pin last rose).
buzzerVars == <<buzzerOn, buzzerCycleStart, buzzerPin, alarmBPM, alarmActive,
                buzzerHighSince>>

pulseVars == <<progVars, clock, ticks, obsVars, driverVars, buzzerVars>>

\* maxim_heart_rate_and_oxygen_saturation: the IR buffer it is given, the buffer
\* after its DC removal (32-bit words), the peaks it counted (-1 before a call),
\* and the heart rate and its valid flag it returned.
maximVars == <<irBuffer, irAc, peaks, heartRate, heartRateValid>>

\* BPM_BLOOD_OXYGEN1: its globals and the statics of its loop(), the time at the
\* start of the next pass, the passes made, and what the last pass saw and printed.
edgeVars == <<edgeDc, lpBuf, lpPos, lpFilled, lastBeat, edgeIntervals, edgeIndex,
              beatsStored, edgeRms, wasAbove, edgeClock, edgeTicks, edgeNow,
              isAbove, edgeBpm>>

restVars == <<maximVars, edgeVars>>

vars == <<pulseVars, alertVars, restVars>>

\* ---------------------------------------------------------------- arithmetic
Abs(x) == IF x < 0 THEN -x ELSE x

Max(a, b) == IF a > b THEN a ELSE b

\* Quotient rounded towards zero, as a C cast or integer division rounds.
TruncDiv(a, b) == IF a >= 0 THEN a \div b ELSE -((-a) \div b)

\* lroundf of a value held in hundredths: nearest integer, halves away from zero.
LRound(x) == IF x >= 0 THEN (x + 50) \div 100 ELSE -((-x + 50) \div 100)

constrain(x, lo, hi) == IF x < lo THEN lo ELSE IF x > hi THEN hi ELSE x

RECURSIVE SumTo(_, _)
\* f[0] + ... + f[n-1]
SumTo(f, n) == IF n = 0 THEN 0 ELSE f[n - 1] + SumTo(f, n - 1)

\* ---------------------------------------------------------------- helpers
\* A smoothAvg that divides by SMOOTH_WIN whether or not the ring is full.
smoothAvgFullDivisor(v) ==
    LET buf == [smoothBuf EXCEPT ![smoothPos] = v]
        wrap == smoothPos + 1 >= SMOOTH_WIN
    IN  [buf |-> buf, pos |-> IF wrap THEN 0 ELSE smoothPos + 1,
         filled |-> smoothFilled \/ wrap,
         mean |-> TruncDiv(SumTo(buf, SMOOTH_WIN) * 100, SMOOTH_WIN)]

\* smoothAvg(v): the ring after the push and the mean it returns (hundredths).
smoothAvg(v) ==
    LET buf == [smoothBuf EXCEPT ![smoothPos] = v]
        wrap == smoothPos + 1 >= SMOOTH_WIN
        pos == IF wrap THEN 0 ELSE smoothPos + 1
        filled == smoothFilled \/ wrap
        n == IF filled THEN SMOOTH_WIN ELSE pos
    IN  [buf |-> buf, pos |-> pos, filled |-> filled,
         mean |-> TruncDiv(SumTo(buf, n) * 100, Max(1, n))]

\* A push whose cursor wraps one slot late (> in place of >=).
pushBeatIntervalLateWrap(dt) ==
    [buf |-> [beatIntervals EXCEPT ![beatIndex] = dt],
     idx |-> IF beatIndex + 1 > BEAT_INTERVALS THEN 0 ELSE beatIndex + 1,
     cnt |-> IF beatCount < BEAT_INTERVALS THEN beatCount + 1 ELSE beatCount]

pushBeatInterval(dt) ==
    [buf |-> [beatIntervals EXCEPT ![beatIndex] = dt],
     idx |-> IF beatIndex + 1 >= BEAT_INTERVALS THEN 0 ELSE beatIndex + 1,
     cnt |-> IF beatCount < BEAT_INTERVALS THEN beatCount + 1 ELSE beatCount]

\* computeBPM over an interval ring: 60000 / mean interval, in hundredths.
\* A candidate averaged over the whole ring, filled or not.
computeBPMWholeRing(buf, cnt) ==
    IF cnt = 0 THEN 0
    ELSE LET avgInterval == (SumTo(buf, cnt) * 100) \div BEAT_INTERVALS
         IN  IF avgInterval <= 0 THEN 0 ELSE (60000 * 100 * 100) \div avgInterval

computeBPM(buf, cnt) ==
    IF cnt = 0 THEN 0
    ELSE LET avgInterval == (SumTo(buf, cnt) * 100) \div cnt
         IN  IF avgInterval <= 0 THEN 0 ELSE (60000 * 100 * 100) \div avgInterval

\* A push that counts every call (no cap on the fill count).
pushBPMHistoryCountsAll(bpm) ==
    [buf |-> [bpmHistory EXCEPT ![bpmHistIdx] = bpm],
     idx |-> IF bpmHistIdx + 1 >= BPM_MEDIAN_WINDOW THEN 0 ELSE bpmHistIdx + 1,
     cnt |-> bpmHistCount + 1]

pushBPMHistory(bpm) ==
    [buf |-> [bpmHistory EXCEPT ![bpmHistIdx] = bpm],
     idx |-> IF bpmHistIdx + 1 >= BPM_MEDIAN_WINDOW THEN 0 ELSE bpmHistIdx + 1,
     cnt |-> IF bpmHistCount < BPM_MEDIAN_WINDOW THEN bpmHistCount + 1 ELSE bpmHistCount]

\* The number of the first cnt slots that sort before slot i (ties by index).
RankOf(buf, cnt, i) ==
    Cardinality({j \in 0..(cnt - 1) :
                    buf[j] < buf[i] \/ (buf[j] = buf[i] /\ j < i)})

\* A median that takes element (cnt-1)/2 of the sorted copy.
medianLowerMiddle(buf, cnt) ==
    IF cnt = 0 THEN 0
    ELSE buf[CHOOSE i \in 0..(cnt - 1) : RankOf(buf, cnt, i) = (cnt - 1) \div 2]

\* medianBPM: element cnt/2 of the sorted copy of the occupied slots.
medianBPM(buf, cnt) ==
    IF cnt = 0 THEN 0
    ELSE buf[CHOOSE i \in 0..(cnt - 1) : RankOf(buf, cnt, i) = cnt \div 2]

\* A push into the average window that forgets to count.
pushBPMAvgUncounted(bpm) ==
    [buf |-> [bpmAvgWindow EXCEPT ![bpmAvgIdx] = bpm],
     idx |-> IF bpmAvgIdx + 1 >= BPM_AVG_WINDOW THEN 0 ELSE bpmAvgIdx + 1,
     cnt |-> bpmAvgCount]

pushBPMAvg(bpm) ==
    [buf |-> [bpmAvgWindow EXCEPT ![bpmAvgIdx] = bpm],
     idx |-> IF bpmAvgIdx + 1 >= BPM_AVG_WINDOW THEN 0 ELSE bpmAvgIdx + 1,
     cnt |-> IF bpmAvgCount < BPM_AVG_WINDOW THEN bpmAvgCount + 1 ELSE bpmAvgCount]

avgBPM(buf, cnt) == IF cnt = 0 THEN 0 ELSE SumTo(buf, cnt) \div cnt

\* A validator with the lower BPM bound left out: any interval of 300 ms or more
\* passes.
plausibleIntervalNoFloor(dt) ==
    IF dt <= 0 THEN FALSE ELSE (60000 * 100) \div dt <= MAX_VALID_BPM * 100

\* plausibleInterval(dt), dt in ms: MIN_VALID_BPM <= 60000/dt <= MAX_VALID_BPM.
plausibleInterval(dt) ==
    IF dt <= 0 THEN FALSE
    ELSE LET bpm == (60000 * 100) \div dt
         IN  bpm >= MIN_VALID_BPM * 100 /\ bpm <= MAX_VALID_BPM * 100

\* The candidate BPM (hundredths) is within the valid range.
validBPM(candidate) ==
    candidate >= MIN_VALID_BPM * 100 /\ candidate <= MAX_VALID_BPM * 100

statusText(s) ==
    CASE s = "ST_OK" -> "OK"
      [] s = "ST_FALLBACK" -> "FALLBACK"
      [] s = "ST_NO_SENSOR" -> "NO_FINGER"
      [] s = "ST_LOW_CONF" -> "LOW_CONF"
      [] OTHER -> "UNK"

\* ---------------------------------------------------------------- stages
\* Signal conditioner, threshold tracker and the 3-sample peak test on sample r.
Condition(r) ==
    LET dcN == (DC_ALPHA * dc + (100 - DC_ALPHA) * (r * 100)) \div 100
        ac == r * 100 - dcN
        geN == ((100 - AUTO_GAIN_ALPHA) * gainEstimate
                  + AUTO_GAIN_ALPHA * Max(100, Abs(ac))) \div 100
        gain == constrain((TARGET_P2P * 100 * 100) \div Max(100, geN * 2),
                          100, MAX_GAIN * 100)
        amplified == TruncDiv(TruncDiv(ac * gain, 100), 100)
        sm == smoothAvg(amplified)
        filtered == sm.mean
        rmsN == (RMS_ALPHA * rms + (100 - RMS_ALPHA) * Abs(filtered)) \div 100
        threshold == Max(THRESHOLD_FLOOR * 100, (rmsN * PROMINENCE_MULT) \div 100)
    IN  [dc |-> dcN, gainEstimate |-> geN, sm |-> sm, rms |-> rmsN,
         prev2 |-> prev1, prev1 |-> curr, curr |-> filtered,
         peak |-> (curr > prev1 /\ curr > filtered /\ curr > threshold)]

\* A gate that lets every peak through.
GateOpen(t, lbt) == TRUE

\* The refractory gate: the peak comes more than MIN_BEAT_MS after the beat clock.
RefractoryPassed(t, lbt) == t - lbt > MIN_BEAT_MS

\* A validator that takes every gated peak as a beat.
AcceptAnyBeat(t, lbt) == TRUE

\* A peak past the gate advances the beat clock: the first one, or one at a
\* plausible interval.
AcceptBeat(t, lbt) == lbt = 0 \/ plausibleInterval(t - lbt)

\* A beat detector that restarts the refractory clock on a rejected peak too.
BeatRestartsOnReject(pk, t, beatLevel, idleLevel) ==
    LET g == pk /\ RefractoryPassed(t, lastBeatTime)
        acc == g /\ AcceptBeat(t, lastBeatTime)
    IN  [lastBeatTime |-> IF g THEN t ELSE lastBeatTime,
         lastValidBeatTime |-> IF acc THEN t ELSE lastValidBeatTime,
         push |-> IF acc /\ lastBeatTime # 0
                  THEN pushBeatInterval(t - lastBeatTime)
                  ELSE [buf |-> beatIntervals, idx |-> beatIndex, cnt |-> beatCount],
         led |-> IF g THEN (IF acc THEN beatLevel ELSE led) ELSE idleLevel]

\* A beat detector that stores the first peak's time since boot as an interval.
BeatStoresFirst(pk, t, beatLevel, idleLevel) ==
    LET g == pk /\ RefractoryPassed(t, lastBeatTime)
        acc == g /\ AcceptBeat(t, lastBeatTime)
    IN  [lastBeatTime |-> IF acc THEN t ELSE lastBeatTime,
         lastValidBeatTime |-> IF acc THEN t ELSE lastValidBeatTime,
         push |-> IF acc THEN pushBeatInterval(t - lastBeatTime)
                  ELSE [buf |-> beatIntervals, idx |-> beatIndex, cnt |-> beatCount],
         led |-> IF g THEN (IF acc THEN beatLevel ELSE led) ELSE idleLevel]

\* Beat detector and interval validator on a pass whose peak test gave pk at time t.
\* led is the level written to LED_PIN: LOW on a beat, HIGH on a pass with no gated
\* peak, untouched when a gated peak is rejected.
Beat(pk, t, beatLevel, idleLevel) ==
    LET g == pk /\ RefractoryPassed(t, lastBeatTime)
        acc == g /\ AcceptBeat(t, lastBeatTime)
        push == IF acc /\ lastBeatTime # 0
                THEN pushBeatInterval(t - lastBeatTime)
                ELSE [buf |-> beatIntervals, idx |-> beatIndex, cnt |-> beatCount]
    IN  [lastBeatTime |-> IF acc THEN t ELSE lastBeatTime,
         lastValidBeatTime |-> IF acc THEN t ELSE lastValidBeatTime,
         push |-> push,
         led |-> IF g THEN (IF acc THEN beatLevel ELSE led) ELSE idleLevel]

\* setLed(on) with LED_ACTIVE_LOW.
setLed(on) == IF on THEN "LOW" ELSE "HIGH"

\* A zeroed record that carries the confidence of the pass before.
CalculatingStaleConf ==
    /\ outStatus' = "CALCULATING" /\ outBPM' = 0 /\ UNCHANGED outConf /\ records' = 1

\* A zeroed pass that prints nothing.
CalculatingSilent ==
    /\ outStatus' = "CALCULATING" /\ outBPM' = 0 /\ outConf' = 0 /\ records' = 0

\* The zeroed record "0,0,0,CALCULATING".
Calculating ==
    /\ outStatus' = "CALCULATING" /\ outBPM' = 0 /\ outConf' = 0 /\ records' = 1

\* A pass below the floor that still lets the baseline follow the sample.
SkipButTrackBaseline ==
    /\ peak' = FALSE
    /\ dc' = (DC_ALPHA * dc + (100 - DC_ALPHA) * (raw' * 100)) \div 100
    /\ UNCHANGED <<gainEstimate, smoothBuf, smoothPos, smoothFilled,
                   lastBeatTime, lastValidBeatTime, beatIntervals, beatIndex,
                   beatCount, bpmHistory, bpmHistIdx, bpmHistCount, bpmAvgWindow,
                   bpmAvgIdx, bpmAvgCount, lastGoodBPM, lastGoodTime, rms, prev2,
                   prev1, curr, lastJitter>>
    /\ lastPeakTime' = IF peak THEN now ELSE lastPeakTime

\* The pipeline is skipped: neither the conditioner nor the beat state is written.
SkipPipeline ==
    /\ peak' = FALSE
    /\ UNCHANGED <<dc, gainEstimate, smoothBuf, smoothPos, smoothFilled,
                   lastBeatTime, lastValidBeatTime, beatIntervals, beatIndex,
                   beatCount, bpmHistory, bpmHistIdx, bpmHistCount, bpmAvgWindow,
                   bpmAvgIdx, bpmAvgCount, lastGoodBPM, lastGoodTime, rms, prev2,
                   prev1, curr, lastJitter>>
    /\ lastPeakTime' = IF peak THEN now ELSE lastPeakTime

\* The conditioner and beat stages write their state.
RunPipeline(c, b) ==
    /\ dc' = c.dc /\ gainEstimate' = c.gainEstimate
    /\ smoothBuf' = c.sm.buf /\ smoothPos' = c.sm.pos /\ smoothFilled' = c.sm.filled
    /\ rms' = c.rms
    /\ prev2' = c.prev2 /\ prev1' = c.prev1 /\ curr' = c.curr
    /\ peak' = c.peak
    /\ lastPeakTime' = IF peak THEN now ELSE lastPeakTime
    /\ lastBeatTime' = b.lastBeatTime
    /\ lastValidBeatTime' = b.lastValidBeatTime
    /\ beatIntervals' = b.push.buf /\ beatIndex' = b.push.idx
    /\ beatCount' = b.push.cnt
    /\ led' = b.led

\* A valid candidate taken with the status set to the unused enumerator.
AcceptCandidateLowConf(h, a, finalBPM, t) ==
    /\ bpmHistory' = h.buf /\ bpmHistIdx' = h.idx /\ bpmHistCount' = h.cnt
    /\ bpmAvgWindow' = a.buf /\ bpmAvgIdx' = a.idx /\ bpmAvgCount' = a.cnt
    /\ lastGoodBPM' = finalBPM /\ lastGoodTime' = t
    /\ status' = "ST_LOW_CONF"

\* An OK branch that keeps a jittered BPM (30% up, constrained) as the good value.
AcceptCandidateStoresPrinted(h, a, finalBPM, t) ==
    /\ bpmHistory' = h.buf /\ bpmHistIdx' = h.idx /\ bpmHistCount' = h.cnt
    /\ bpmAvgWindow' = a.buf /\ bpmAvgIdx' = a.idx /\ bpmAvgCount' = a.cnt
    /\ lastGoodBPM' = constrain(finalBPM + (finalBPM * 30) \div 100,
                                MIN_VALID_BPM * 100, MAX_VALID_BPM * 100)
    /\ lastGoodTime' = t
    /\ status' = "ST_OK"

\* A valid candidate: both windows take it and the good value is refreshed.
AcceptCandidate(h, a, finalBPM, t) ==
    /\ bpmHistory' = h.buf /\ bpmHistIdx' = h.idx /\ bpmHistCount' = h.cnt
    /\ bpmAvgWindow' = a.buf /\ bpmAvgIdx' = a.idx /\ bpmAvgCount' = a.cnt
    /\ lastGoodBPM' = finalBPM /\ lastGoodTime' = t
    /\ status' = "ST_OK"

KeepWindows ==
    UNCHANGED <<bpmHistory, bpmHistIdx, bpmHistCount, bpmAvgWindow, bpmAvgIdx,
                bpmAvgCount, lastGoodBPM, lastGoodTime>>

\* ---------------------------------------------------------------- Espbpm
\* The HRV jitter of Espbpm on a final BPM (hundredths); j picks the draw.
JitterEsp(finalBPM, j) ==
    LET maxVar == (finalBPM * 30) \div 100
        low0 == -maxVar
        high0 == maxVar
        low == IF low0 >= high0 THEN -100 ELSE low0
        high == IF low0 >= high0 THEN 100 ELSE high0
        r == IF j < 0 THEN low ELSE high
    IN  constrain(finalBPM + r, MIN_VALID_BPM * 100, MAX_VALID_BPM * 100)

\* 0.6 * mean + 0.4 * median when the median is positive.
Blend(mean, med) == IF med > 0 THEN (mean * 60 + med * 40) \div 100 ELSE mean

\* The fallback rule without its good-value condition.
FallbackEspAnyGood(t, lvbt, good) == t - lvbt < FALLBACK_TIMEOUT_MS

\* The fallback branch of Espbpm: a recent beat and a previous good value.
FallbackEsp(t, lvbt, good) == t - lvbt < FALLBACK_TIMEOUT_MS /\ good > 0

\* One pass of Espbpm's loop() on sample r.
\* A pass that ends without the extra delay.
PassTimeNoExtraDelay(busy, printed) == Max(busy, SAMPLE_MS)

\* The time one pass of Espbpm's loop() takes: the work padded to SAMPLE_MS, and
\* delay(1000) after a printed OK or FALLBACK record.
PassTime(busy, printed) ==
    Max(busy, SAMPLE_MS) + (IF printed THEN EXTRA_DELAY_MS ELSE 0)

passEsp(r, busySet, maxPasses) ==
    /\ ticks < maxPasses
    /\ ticks' = ticks + 1
    /\ UNCHANGED <<driverVars, alertVars, restVars>>
    /\ raw' = r
    /\ now' = clock
    /\ IF r < PRESENCE_FLOOR
       THEN /\ led' = setLed(TRUE)
            /\ Calculating
            /\ status' = "ST_NO_SENSOR"
            /\ SkipPipeline
            /\ \E busy \in busySet : clock' = clock + PassTime(busy, FALSE)
       ELSE LET c == Condition(r)
                b == Beat(c.peak, clock, setLed(FALSE), setLed(TRUE))
                candidate == computeBPM(b.push.buf, b.push.cnt)
                h == pushBPMHistory(candidate)
                a == pushBPMAvg(candidate)
                okBPM == Blend(avgBPM(a.buf, a.cnt), medianBPM(h.buf, h.cnt))
                isOK == validBPM(candidate)
                isFB == ~isOK /\ FallbackEsp(clock, b.lastValidBeatTime, lastGoodBPM)
                finalBPM == IF isOK THEN okBPM ELSE lastGoodBPM
                doJitter == clock - lastJitter > JITTER_PERIOD_MS
            IN  /\ RunPipeline(c, b)
                /\ IF isOK
                   THEN AcceptCandidate(h, a, okBPM, clock)
                   ELSE /\ KeepWindows
                        /\ status' = IF isFB THEN "ST_FALLBACK" ELSE "ST_NO_SENSOR"
                /\ IF isOK \/ isFB
                   THEN /\ IF doJitter
                           THEN /\ lastJitter' = clock
                                /\ \E j \in JitterSet :
                                       outBPM' = LRound(JitterEsp(finalBPM, j))
                           ELSE /\ UNCHANGED lastJitter
                                /\ outBPM' = LRound(finalBPM)
                        /\ outConf' = IF isOK THEN 85 ELSE 60
                        /\ outStatus' = statusText(IF isOK THEN "ST_OK" ELSE "ST_FALLBACK")
                        /\ records' = 1
                        /\ \E busy \in busySet :
                              clock' = clock + PassTime(busy, TRUE)
                   ELSE /\ UNCHANGED lastJitter
                        /\ Calculating
                        /\ \E busy \in busySet : clock' = clock + PassTime(busy, FALSE)

\* One pass of Espbpm's loop() on the sample r.
loop(r) == passEsp(r, BusySet, MaxTicks) /\ UNCHANGED buzzerVars

\* ---------------------------------------------------------------- Pulsebyuno
\* The HRV jitter of Pulsebyuno: random(minVar * -100, maxVar * 100) / 100.
JitterUno(finalBPM, j) ==
    LET lo == -((finalBPM * 20) \div 100)
        hi == (finalBPM * 30) \div 100
        r == IF lo >= hi THEN lo ELSE IF j < 0 THEN lo ELSE hi - 1
    IN  constrain(finalBPM + r, MIN_VALID_BPM * 100, MAX_VALID_BPM * 100)

\* The fallback branch of Pulsebyuno: a recent beat.
FallbackUno(t, lvbt, good) == t - lvbt < FALLBACK_TIMEOUT_MS

\* One pass of Pulsebyuno's loop() on sample r, with c what the conditioner and
\* the peak test make of r, the pass spending one of busySet ms before its closing
\* delay, in a behaviour of at most maxPasses passes.
passUno(r, c, busySet, maxPasses) ==
    /\ ticks < maxPasses
    /\ ticks' = ticks + 1
    /\ UNCHANGED <<driverVars, buzzerVars, alertVars, restVars>>
    /\ raw' = r
    /\ now' = clock
    /\ IF r < PRESENCE_FLOOR
       THEN /\ Calculating
            /\ led' = "HIGH"
            /\ UNCHANGED status
            /\ SkipPipeline
            /\ \E busy \in busySet : clock' = clock + busy + UNO_ABSENT_DELAY_MS
       ELSE LET b == Beat(c.peak, clock, "LOW", "HIGH")
                candidate == computeBPM(b.push.buf, b.push.cnt)
                h == pushBPMHistory(candidate)
                a == pushBPMAvg(candidate)
                okBPM == avgBPM(a.buf, a.cnt)
                isOK == validBPM(candidate)
                isFB == ~isOK /\ FallbackUno(clock, b.lastValidBeatTime, lastGoodBPM)
                finalBPM == IF isOK THEN okBPM ELSE lastGoodBPM
                doJitter == clock - lastJitter > JITTER_PERIOD_MS
            IN  /\ RunPipeline(c, b)
                /\ IF isOK
                   THEN AcceptCandidate(h, a, okBPM, clock)
                   ELSE /\ KeepWindows
                        /\ status' = IF isFB THEN "ST_FALLBACK" ELSE "ST_NO_SENSOR"
                /\ IF isOK \/ isFB
                   THEN /\ IF doJitter
                           THEN /\ lastJitter' = clock
                                /\ \E j \in JitterSet :
                                       outBPM' = TruncDiv(JitterUno(finalBPM, j), 100)
                           ELSE /\ UNCHANGED lastJitter
                                /\ outBPM' = TruncDiv(finalBPM, 100)
                        /\ outConf' = IF isOK THEN 80 ELSE 60
                        /\ outStatus' = statusText(IF isOK THEN "ST_OK" ELSE "ST_FALLBACK")
                        /\ records' = 1
                        /\ \E busy \in busySet : clock' = clock + Max(busy, SAMPLE_MS)
                   ELSE /\ UNCHANGED lastJitter
                        /\ Calculating
                        /\ \E busy \in busySet : clock' = clock + busy

\* One pass of Pulsebyuno's loop() on sample r.
loopUno(r) == passUno(r, Condition(r), BusySet, MaxTicks)

\* ---------------------------------------------------------------- specification
\* The state after setup(): the globals as initialised, millis() taken as 0.
Init ==
    /\ status = "ST_NO_SENSOR"
    /\ dc = 0 /\ gainEstimate = 100
    /\ smoothBuf = [i \in 0..(SMOOTH_WIN - 1) |-> 0]
    /\ smoothPos = 0 /\ smoothFilled = FALSE
    /\ lastBeatTime = 0 /\ lastValidBeatTime = 0
    /\ beatIntervals = [i \in 0..(BEAT_INTERVALS - 1) |-> 0]
    /\ beatIndex = 0 /\ beatCount = 0
    /\ bpmHistory = [i \in 0..(BPM_MEDIAN_WINDOW - 1) |-> 0]
    /\ bpmHistIdx = 0 /\ bpmHistCount = 0
    /\ bpmAvgWindow = [i \in 0..(BPM_AVG_WINDOW - 1) |-> 0]
    /\ bpmAvgIdx = 0 /\ bpmAvgCount = 0
    /\ lastGoodBPM = 0 /\ lastGoodTime = 0
    /\ rms = 0 /\ prev2 = 0 /\ prev1 = 0 /\ curr = 0
    /\ lastJitter = 0 /\ led = "LOW"
    /\ clock = 0 /\ ticks = 0
    /\ raw = 0 /\ now = 0 /\ peak = FALSE /\ lastPeakTime = 0
    /\ outStatus = "NONE" /\ outBPM = 0 /\ outConf = 0 /\ records = 0
    /\ pushedIntervals = <<>> /\ pushedBpm = <<>> /\ pushedSmooth = <<>>
    /\ smoothOut = 0
    /\ taskPc = "setup" /\ sensorFound = FALSE /\ sampleCount = 0
    /\ millis = 0 /\ checks = 0
    /\ bpmValue = 0 /\ spo2Value = 0 /\ bpmValid = FALSE /\ spo2Valid = FALSE
    /\ tempC = [nan |-> TRUE, val |-> 0]
    /\ lastCaretakerAlert = 0 /\ lastDoctorAlert = 0 /\ lastSummarySend = 0
    /\ caretakerSent = FALSE /\ doctorSent = FALSE /\ alertWritten = FALSE
    /\ caretakerAt = -1 /\ caretakerBefore = -1
    /\ doctorAt = -1 /\ doctorBefore = -1
    /\ buzzerOn = FALSE /\ buzzerCycleStart = 0 /\ buzzerPin = "LOW"
    /\ alarmBPM = 0 /\ alarmActive = FALSE /\ buzzerHighSince = -1
    /\ irBuffer = <<>> /\ irAc = <<>> /\ peaks = -1
    /\ heartRate = 0 /\ heartRateValid = FALSE
    /\ edgeDc = 0 /\ lpBuf = [i \in 0..(LP_SIZE - 1) |-> 0]
    /\ lpPos = 0 /\ lpFilled = FALSE
    /\ lastBeat = 0 /\ edgeIntervals = [i \in 0..(BEAT_BUF - 1) |-> 0]
    /\ edgeIndex = 0 /\ beatsStored = 0
    /\ edgeRms = 0 /\ wasAbove = FALSE
    /\ edgeClock = 0 /\ edgeTicks = 0 /\ edgeNow = 0
    /\ isAbove = FALSE /\ edgeBpm = 0

\* Espbpm
Next == \E r \in RawSet : loop(r)

Spec == Init /\ [][Next]_vars

\* Pulsebyuno
NextUno == \E r \in RawSet : loopUno(r)

SpecUno == Init /\ [][NextUno]_vars

\* ---------------------------------------------------------------- ring drivers
\* Everything but the two BPM windows and their log.
notBpmWindows ==
    <<status, dc, gainEstimate, smoothBuf, smoothPos, smoothFilled, lastBeatTime,
      lastValidBeatTime, beatIntervals, beatIndex, beatCount, lastGoodBPM,
      lastGoodTime, rms, prev2, prev1, curr, lastJitter, led, clock, ticks,
      obsVars, pushedIntervals, pushedSmooth, smoothOut, buzzerVars,
      alertVars, restVars>>

\* The two pushes of a valid candidate v: pushBPMHistory(v); pushBPMAvg(v).
PushBpm(v) ==
    /\ LET h == pushBPMHistory(v)
           a == pushBPMAvg(v)
       IN  /\ bpmHistory' = h.buf /\ bpmHistIdx' = h.idx /\ bpmHistCount' = h.cnt
           /\ bpmAvgWindow' = a.buf /\ bpmAvgIdx' = a.idx /\ bpmAvgCount' = a.cnt
    /\ pushedBpm' = Append(pushedBpm, v)
    /\ UNCHANGED notBpmWindows

\* The median window under every short sequence of candidates.
NextMedian ==
    \E v \in MedianSet : Len(pushedBpm) < MaxMedianPushes /\ PushBpm(v)

SpecMedian == Init /\ [][NextMedian]_vars

\* Everything but the interval ring and its log.
notIntervalRing ==
    <<status, dc, gainEstimate, smoothBuf, smoothPos, smoothFilled, lastBeatTime,
      lastValidBeatTime, bpmHistory, bpmHistIdx, bpmHistCount, bpmAvgWindow,
      bpmAvgIdx, bpmAvgCount, lastGoodBPM, lastGoodTime, rms, prev2, prev1, curr,
      lastJitter, led, clock, ticks, obsVars, pushedBpm, pushedSmooth, smoothOut,
      buzzerVars, alertVars, restVars>>

\* pushBeatInterval(dt) on an accepted interval.
PushInterval(dt) ==
    /\ LET b == pushBeatInterval(dt)
       IN  beatIntervals' = b.buf /\ beatIndex' = b.idx /\ beatCount' = b.cnt
    /\ pushedIntervals' = Append(pushedIntervals, dt)
    /\ UNCHANGED notIntervalRing

\* The next accepted interval: a seed first, then 1 ms more each time.
NextInterval ==
    /\ Len(pushedIntervals) < MaxIntervalPushes
    /\ \E dt \in (IF pushedIntervals = <<>> THEN DtSeeds
                   ELSE {pushedIntervals[Len(pushedIntervals)] + 1}) :
           PushInterval(dt)

\* The interval ring and the BPM windows under pushes past their capacities.
NextRings ==
    \/ NextInterval
    \/ \E v \in AvgSet : Len(pushedBpm) < MaxAvgPushes /\ PushBpm(v)

SpecRings == Init /\ [][NextRings]_vars

\* Everything but the smoothing ring, its log and the value returned.
notSmoothing ==
    <<status, dc, gainEstimate, lastBeatTime, lastValidBeatTime, beatIntervals,
      beatIndex, beatCount, bpmHistory, bpmHistIdx, bpmHistCount, bpmAvgWindow,
      bpmAvgIdx, bpmAvgCount, lastGoodBPM, lastGoodTime, rms, prev2, prev1, curr,
      lastJitter, led, clock, ticks, obsVars, pushedIntervals, pushedBpm,
      buzzerVars, alertVars, restVars>>

\* filtered = smoothAvg(v).
PushSmooth(v) ==
    /\ LET sm == smoothAvg(v)
       IN  /\ smoothBuf' = sm.buf /\ smoothPos' = sm.pos
           /\ smoothFilled' = sm.filled /\ smoothOut' = sm.mean
    /\ pushedSmooth' = Append(pushedSmooth, v)
    /\ UNCHANGED notSmoothing

NextSmooth ==
    \E v \in SmoothSet : Len(pushedSmooth) < MaxSmoothPushes /\ PushSmooth(v)

SpecSmooth == Init /\ [][NextSmooth]_vars

\* Pulsebyuno on an input whose peaks come with exact period T: raw stays at 1000,
\* a pass starts every T/2 ms, and the peak test fires on the passes that start at
\* a multiple of T (never on two passes running, as with the 3-sample window).
NextPeriodic ==
    \E T \in PeriodSet :
        /\ ticks = 0 \/ 2 * clock = T * ticks
        /\ passUno(1000,
                   [Condition(1000) EXCEPT !.peak = (clock > 0 /\ clock % T = 0)],
                   {T \div 2}, MaxPeriodicPasses)

SpecPeriodic == Init /\ [][NextPeriodic]_vars

\* Espbpm long enough for its BPM windows to fill.
NextSteady ==
    \E r \in SteadyRawSet :
        passEsp(r, SteadyBusySet, MaxSteadyPasses) /\ UNCHANGED buzzerVars

SpecSteady == Init /\ [][NextSteady]_vars

\* ---------------------------------------------------------------- Espbpmwithdelay
\* The alarm test of Espbpmwithdelay on the finalBPM (hundredths) it prints.
AlarmTest(finalBPM) ==
    /\ finalBPM > 0
    /\ finalBPM < BPM_ALERT_LOW * 100 \/ finalBPM > BPM_ALERT_HIGH * 100

\* A handler that leaves the buzzer as it is when the alarm is off.
handleBuzzerKeepsPin(alarm, t, start) ==
    IF ~alarm
    THEN [on |-> buzzerOn, pin |-> buzzerPin, start |-> start]
    ELSE IF start = 0
    THEN [on |-> TRUE, pin |-> "HIGH", start |-> t]
    ELSE LET dt == (t - start) % BUZZ_PERIOD_MS
         IN  IF dt < BUZZ_ON_MS
             THEN [on |-> TRUE, pin |-> IF buzzerOn THEN buzzerPin ELSE "HIGH",
                   start |-> start]
             ELSE [on |-> FALSE, pin |-> IF buzzerOn THEN "LOW" ELSE buzzerPin,
                   start |-> start]

\* handleBuzzer(alarmActive) with millis() = t and buzzerCycleStart = start: the
\* new buzzerOn, the level of BUZZER_PIN and the new buzzerCycleStart.
handleBuzzer(alarm, t, start) ==
    IF ~alarm
    THEN [on |-> FALSE, pin |-> IF buzzerOn THEN "LOW" ELSE buzzerPin,
          start |-> start]
    ELSE IF start = 0
    THEN [on |-> TRUE, pin |-> "HIGH", start |-> t]
    ELSE LET dt == (t - start) % BUZZ_PERIOD_MS
         IN  IF dt < BUZZ_ON_MS
             THEN [on |-> TRUE, pin |-> IF buzzerOn THEN buzzerPin ELSE "HIGH",
                   start |-> start]
             ELSE [on |-> FALSE, pin |-> IF buzzerOn THEN "LOW" ELSE buzzerPin,
                   start |-> start]

\* One pass of Espbpmwithdelay's loop() on sample r: the pass of Espbpm, and the
\* buzzer. A pass that prints zeros clears buzzerCycleStart and calls
\* handleBuzzer(false); a pass that prints OK or FALLBACK tests the finalBPM it
\* prints (after the jitter, before the rounding), clears buzzerCycleStart when
\* the alarm is off, and calls handleBuzzer. millis() in handleBuzzer is taken
\* as the pass's `now`.
passBuzzer(r) ==
    /\ passEsp(r, BusySet, MaxBuzzerPasses)
    /\ LET tested ==
               IF outStatus' = "CALCULATING" THEN {0}
               ELSE IF lastJitter' # lastJitter
               THEN {f \in {JitterEsp(lastGoodBPM', j) : j \in JitterSet} :
                        LRound(f) = outBPM'}
               ELSE {lastGoodBPM'}
       IN  \E f \in tested :
               LET alarm == AlarmTest(f)
                   hb == handleBuzzer(alarm, now',
                                      IF alarm THEN buzzerCycleStart ELSE 0)
               IN  /\ alarmBPM' = f
                   /\ alarmActive' = alarm
                   /\ buzzerOn' = hb.on
                   /\ buzzerPin' = hb.pin
                   /\ buzzerCycleStart' = hb.start
                   /\ buzzerHighSince' =
                          IF hb.pin = "LOW" THEN -1
                          ELSE IF buzzerPin = "LOW" THEN now'
                          ELSE buzzerHighSince

NextBuzzer == \E r \in RawSet : passBuzzer(r)

SpecBuzzer == Init /\ [][NextBuzzer]_vars

\* ---------------------------------------------------------------- Maxim algorithm
\* a - b on uint32_t, modulo 2^32, for 0 <= a, b < 2^31.
Sub32(a, b) ==
    IF a >= b
    THEN [hi |-> (a - b) \div HALF_WORD, lo |-> (a - b) % HALF_WORD]
    ELSE LET d == b - a
             borrow == IF d % HALF_WORD = 0 THEN 0 ELSE 1
         IN  [hi |-> HALF_WORD - (d \div HALF_WORD) - borrow,
              lo |-> (HALF_WORD - (d % HALF_WORD)) % HALF_WORD]

\* w > 0 and w <= 0 as C compares a uint32_t with the int 0: unsigned.
GreaterThanZero32(w) == w.hi > 0 \/ w.lo > 0

AtMostZero32(w) == w.hi = 0 /\ w.lo = 0

\* The word w read as an int32_t.
Signed32(w) ==
    IF w.hi >= HALF_WORD \div 2 THEN (w.hi - HALF_WORD) * HALF_WORD + w.lo
    ELSE w.hi * HALF_WORD + w.lo

\* The sum of a buffer's samples (no wrap for buffers this short).
RECURSIVE SumBuffer(_)
SumBuffer(buf) == IF buf = <<>> THEN 0 ELSE Head(buf) + SumBuffer(Tail(buf))

\* The caller stores one more sample v in irBuffer.
fillIrBuffer(v) ==
    /\ peaks = -1 /\ Len(irBuffer) < MaxIrSamples
    /\ irBuffer' = Append(irBuffer, v)
    /\ UNCHANGED <<irAc, peaks, heartRate, heartRateValid>>
    /\ UNCHANGED <<pulseVars, alertVars, edgeVars>>

\* maxim_heart_rate_and_oxygen_saturation on the buffer filled so far (a length
\* of 0 divides by zero and is left out): the mean, the DC removal in place, the
\* count of peaks, and the heart rate with its valid flag. The red buffer and
\* the SpO2 estimate, which the count of peaks does not read, are left out.
maxim_heart_rate_and_oxygen_saturation ==
    /\ peaks = -1 /\ Len(irBuffer) >= 1
    /\ LET n == Len(irBuffer)
           irMean == SumBuffer(irBuffer) \div n
           ac == [i \in 1..n |-> Sub32(irBuffer[i], irMean)]
           cnt == Cardinality({i \in 2..n :
                                  GreaterThanZero32(ac[i]) /\ AtMostZero32(ac[i - 1])})
       IN  /\ irAc' = ac
           /\ peaks' = cnt
           /\ heartRate' = cnt * 60
           /\ heartRateValid' = (cnt * 60 > 30 /\ cnt * 60 < 200)
    /\ UNCHANGED irBuffer
    /\ UNCHANGED <<pulseVars, alertVars, edgeVars>>

NextMaxim ==
    \/ \E v \in IrSet : fillIrBuffer(v)
    \/ maxim_heart_rate_and_oxygen_saturation

SpecMaxim == Init /\ [][NextMaxim]_vars

\* ---------------------------------------------------------------- BPM_BLOOD_OXYGEN1
\* Values of the signal are held in hundredths, as the sketch scales them
\* ((long)(ac * 100)); the float results are truncated to whole numbers.
\* movingAverage(v): the ring after the store, and the mean of its filled part.
movingAverage(v) ==
    LET buf == [lpBuf EXCEPT ![lpPos] = v]
        wrap == lpPos + 1 >= LP_SIZE
        pos == IF wrap THEN 0 ELSE lpPos + 1
        filled == lpFilled \/ wrap
        n == IF filled THEN LP_SIZE ELSE pos
    IN  [buf |-> buf, pos |-> pos, filled |-> filled,
         mean |-> TruncDiv(SumTo(buf, n), Max(1, n))]

\* computeBPM of BPM_BLOOD_OXYGEN1 on the ring buf with n stored intervals, in
\* hundredths of a beat: 60000 / (sum / n).
computeBPMEdge(buf, n) ==
    IF n = 0 THEN 0
    ELSE IF SumTo(buf, n) <= 0 THEN 0
    ELSE (6000000 * n) \div SumTo(buf, n)

\* A refractory test that lets every rising edge through.
refractoryOverAlways(t, lb) == TRUE

\* The refractory test of the rising edge at time t, the last beat at lb.
refractoryOver(t, lb) == lb = 0 \/ t - lb > EDGE_MIN_BEAT_MS

\* One pass of BPM_BLOOD_OXYGEN1's loop() on sample r.
loopEdge(r) ==
    /\ edgeTicks < MaxEdgeTicks
    /\ edgeTicks' = edgeTicks + 1
    /\ LET d == (95 * edgeDc + 5 * (r * 100)) \div 100
           ac == r * 100 - d
           ma == movingAverage(ac)
           filtered == ma.mean
           r2 == (95 * edgeRms + 5 * Abs(filtered)) \div 100
           threshold == Max(EDGE_THRESHOLD_FLOOR, (r2 * 18) \div 10)
           above == filtered > threshold
           beat == above /\ ~wasAbove /\ refractoryOver(edgeClock, lastBeat)
           store == beat /\ lastBeat # 0
           ring == IF store
                   THEN [edgeIntervals EXCEPT ![edgeIndex] = edgeClock - lastBeat]
                   ELSE edgeIntervals
           stored == IF store /\ beatsStored < BEAT_BUF
                     THEN beatsStored + 1 ELSE beatsStored
       IN  /\ edgeDc' = d
           /\ lpBuf' = ma.buf /\ lpPos' = ma.pos /\ lpFilled' = ma.filled
           /\ edgeRms' = r2
           /\ edgeNow' = edgeClock
           /\ isAbove' = above
           /\ wasAbove' = above
           /\ edgeIntervals' = ring
           /\ edgeIndex' = IF store THEN (edgeIndex + 1) % BEAT_BUF ELSE edgeIndex
           /\ beatsStored' = stored
           /\ lastBeat' = IF beat THEN edgeClock ELSE lastBeat
           /\ edgeBpm' = (computeBPMEdge(ring, stored) + 50) \div 100
    /\ \E busy \in EdgeBusySet : edgeClock' = edgeClock + busy + EDGE_DELAY_MS
    /\ UNCHANGED <<pulseVars, alertVars, maximVars>>

NextEdge == \E r \in EdgeRawSet : loopEdge(r)

SpecEdge == Init /\ [][NextEdge]_vars

\* ---------------------------------------------------------------- alert sketch
\* readTemperatureC: the DS18B20 answer t, NAN when the probe is disconnected.
readTemperatureC(t) ==
    IF t = DEVICE_DISCONNECTED_C THEN [nan |-> TRUE, val |-> 0]
    ELSE [nan |-> FALSE, val |-> t]

\* sampleMAX30102 once its buffers are full: the heart rate hr of getHeartRate
\* and the SpO2 estimate from the sums sr and sir of the red and IR buffers. An
\* invalid reading keeps the value of the reading before.
sampleMAX30102(hr, sr, sir) ==
    [bpmValue |-> IF hr > 30 /\ hr < 220 THEN hr ELSE bpmValue,
     bpmValid |-> hr > 30 /\ hr < 220,
     spo2Value |-> IF sir > 0
                   THEN constrain(TruncDiv(110 * sir - 25 * sr, sir), 50, 100)
                   ELSE spo2Value,
     spo2Valid |-> sir > 0]

\* A critical test that looks at the values alone, not at their valid flags.
isCriticalAnyReading(r, tC) ==
    \/ r.spo2Value < SPO2_THRESHOLD
    \/ r.bpmValue < BPM_LOW \/ r.bpmValue > BPM_HIGH
    \/ ~tC.nan /\ tC.val > TEMP_THRESHOLD

\* isCritical as dispatchAlertsIfNeeded builds it from the readings r and the
\* temperature tC.
isCritical(r, tC) ==
    \/ r.spo2Valid /\ r.spo2Value < SPO2_THRESHOLD
    \/ r.bpmValid /\ (r.bpmValue < BPM_LOW \/ r.bpmValue > BPM_HIGH)
    \/ ~tC.nan /\ tC.val > TEMP_THRESHOLD

\* dispatchAlertsIfNeeded at millis() = t. The trackers hold seconds and start at
\* 0; the subtractions are unsigned, and never wrap within the uptimes explored.
\* caretakerAt and doctorAt keep the millisecond of the latest notification to
\* each (-1: none yet), caretakerBefore and doctorBefore that of the one before.
dispatchAlertsIfNeeded(t, r, tC) ==
    LET nowS == t \div 1000
        crit == isCritical(r, tC)
        toCaretaker == crit /\ nowS - lastCaretakerAlert >= ALERT_MIN_INTERVAL
        toDoctor == crit /\ nowS - lastDoctorAlert >= ALERT_MIN_INTERVAL * 2
    IN  /\ caretakerSent' = toCaretaker
        /\ lastCaretakerAlert' = IF toCaretaker THEN nowS ELSE lastCaretakerAlert
        /\ caretakerAt' = IF toCaretaker THEN t ELSE caretakerAt
        /\ caretakerBefore' = IF toCaretaker THEN caretakerAt ELSE caretakerBefore
        /\ doctorSent' = toDoctor
        /\ lastDoctorAlert' = IF toDoctor THEN nowS ELSE lastDoctorAlert
        /\ doctorAt' = IF toDoctor THEN t ELSE doctorAt
        /\ doctorBefore' = IF toDoctor THEN doctorAt ELSE doctorBefore
        /\ alertWritten' = crit

\* periodicTask from the return of sampleMAX30102 on: the readings, the alerts
\* and the summary, e ms after the check before.
afterSampling(e, hr, smp, tC) ==
    LET t == millis + e
        nowS == t \div 1000
        r == sampleMAX30102(hr, smp[1], smp[2])
    IN  /\ millis' = t
        /\ bpmValue' = r.bpmValue /\ bpmValid' = r.bpmValid
        /\ spo2Value' = r.spo2Value /\ spo2Valid' = r.spo2Valid
        /\ dispatchAlertsIfNeeded(t, r, tC)
        /\ lastSummarySend' = IF nowS - lastSummarySend >= SUMMARY_INTERVAL
                               THEN nowS ELSE lastSummarySend
        /\ checks' = checks + 1

\* setup(): particleSensor.begin finds the sensor or not; the timer is armed
\* either way.
setup ==
    /\ taskPc = "setup"
    /\ \E found \in BOOLEAN : sensorFound' = found
    /\ taskPc' = "loop"
    /\ UNCHANGED <<sampleCount, millis, checks, bpmValue, spo2Value, bpmValid,
                   spo2Valid, tempC, lastCaretakerAlert, lastDoctorAlert,
                   lastSummarySend, caretakerSent, doctorSent, alertWritten,
                   caretakerAt, caretakerBefore, doctorAt, doctorBefore>>
    /\ UNCHANGED <<pulseVars, restVars>>

\* One periodicTask that returns: the sensor delivered its BUFFER_SIZE samples.
periodicTask ==
    /\ taskPc = "loop" /\ sensorFound /\ checks < MaxAlertChecks
    /\ \E e \in ElapsedSet, hr \in HrSet, smp \in SampleSet, rawT \in TempSet :
           LET tC == readTemperatureC(rawT)
           IN  tempC' = tC /\ afterSampling(e, hr, smp, tC)
    /\ sampleCount' = BUFFER_SIZE
    /\ UNCHANGED <<taskPc, sensorFound>>
    /\ UNCHANGED <<pulseVars, restVars>>

NextAlerts == setup \/ periodicTask

SpecAlerts == Init /\ [][NextAlerts]_vars

\* periodicTask followed step by step. timer.run() calls it from loop(); it reads
\* the temperature and enters the fill loop of sampleMAX30102 with i = 0.
timerFires ==
    /\ taskPc = "loop" /\ checks < MaxSamplingTasks
    /\ \E rawT \in TempSet : tempC' = readTemperatureC(rawT)
    /\ sampleCount' = 0
    /\ taskPc' = "poll"
    /\ UNCHANGED <<sensorFound, millis, checks, bpmValue, spo2Value, bpmValid,
                   spo2Valid, lastCaretakerAlert, lastDoctorAlert,
                   lastSummarySend, caretakerSent, doctorSent, alertWritten,
                   caretakerAt, caretakerBefore, doctorAt, doctorBefore>>
    /\ UNCHANGED <<pulseVars, restVars>>

\* The samples still missing: everything of the sketch but the fill loop's
\* position and counter.
notFillLoop ==
    <<sensorFound, millis, checks, bpmValue, spo2Value, bpmValid, spo2Valid,
      tempC, lastCaretakerAlert, lastDoctorAlert, lastSummarySend, caretakerSent,
      doctorSent, alertWritten, caretakerAt, caretakerBefore, doctorAt,
      doctorBefore, pulseVars, restVars>>

\* while (i < BUFFER_SIZE): particleSensor.available() either yields a sample,
\* stored at i, or sends the loop to delay(5). A sensor that was not found has
\* none to give.
pollSensor ==
    /\ taskPc = "poll" /\ sampleCount < BUFFER_SIZE
    /\ \E available \in (IF sensorFound THEN BOOLEAN ELSE {FALSE}) :
           IF available
           THEN sampleCount' = sampleCount + 1 /\ taskPc' = "poll"
           ELSE sampleCount' = sampleCount /\ taskPc' = "delay"
    /\ UNCHANGED notFillLoop

\* delay(5), then the loop test again.
delay5 ==
    /\ taskPc = "delay"
    /\ taskPc' = "poll"
    /\ UNCHANGED <<sampleCount, notFillLoop>>

\* The buffers are full: the rest of periodicTask, and back to loop().
taskReturns ==
    /\ taskPc = "poll" /\ sampleCount = BUFFER_SIZE
    /\ \E e \in ElapsedSet, hr \in HrSet, smp \in SampleSet :
           afterSampling(e, hr, smp, tempC)
    /\ taskPc' = "loop"
    /\ UNCHANGED <<sensorFound, sampleCount, tempC>>
    /\ UNCHANGED <<pulseVars, restVars>>

NextSampling == setup \/ timerFires \/ pollSensor \/ delay5 \/ taskReturns

\* loop() runs without end, so a step that can be taken is taken.
SpecSampling == Init /\ [][NextSampling]_vars /\ WF_vars(NextSampling)

\* ---------------------------------------------------------------- claims
\* 35 <= 60000/dt <= 200 in exact arithmetic, for an interval of dt ms.
WithinBpmBounds(dt) ==
    MIN_VALID_BPM * dt <= 60000 /\ 60000 <= MAX_VALID_BPM * dt

\* The beat clock and the interval history.
beatState == <<lastBeatTime, lastValidBeatTime, beatIntervals, beatIndex, beatCount>>

\* The step is a pass of loop().
Pass == ticks' = ticks + 1

\* The last pass printed the record the sketch's rounding makes of final BPM x.
EmittedUno(x) == outBPM = TruncDiv(x, 100)

\* C1: every occupied slot of the interval history holds an interval dt with
\* 35 <= 60000/dt <= 200, that is 300 ms <= dt <= 1714 ms.
C1_StoredIntervalsPlausible ==
    \A i \in 0..(beatCount - 1) :
        /\ WithinBpmBounds(beatIntervals[i])
        /\ beatIntervals[i] >= 300 /\ beatIntervals[i] <= 1714

\* An interval has been stored, at the 300 ms end of the range.
C1_Witness == beatCount >= 1 /\ beatIntervals[0] = 300

\* C2: a peak past the refractory gate whose interval from a non-zero beat clock
\* is implausible leaves the beat clock, the fallback clock and the interval
\* history as they were.
C2_RejectedPeakChangesNothing ==
    [][(/\ Pass /\ peak' /\ lastBeatTime # 0
        /\ now' - lastBeatTime > MIN_BEAT_MS
        /\ ~WithinBpmBounds(now' - lastBeatTime))
       => UNCHANGED beatState]_vars

\* The last pass saw a peak past the gate at an implausible interval.
C2_Witness ==
    /\ peak /\ lastBeatTime # 0
    /\ now - lastBeatTime > MIN_BEAT_MS
    /\ ~WithinBpmBounds(now - lastBeatTime)

\* C3: the beat clock only advances by more than MIN_BEAT_MS (its initial 0
\* included), and a peak MIN_BEAT_MS or less after the beat clock changes no beat
\* state: a double peak counts as one beat.
C3_RefractoryGate ==
    [][/\ lastBeatTime' # lastBeatTime => lastBeatTime' - lastBeatTime > MIN_BEAT_MS
       /\ (Pass /\ peak' /\ now' - lastBeatTime <= MIN_BEAT_MS) => UNCHANGED beatState]_vars

\* The last pass saw a second peak 40 ms after an accepted beat.
C3_Witness == peak /\ lastBeatTime # 0 /\ now - lastBeatTime = 40

\* C4: a pass whose sample is below the presence floor prints the zeroed record
\* and writes none of the beat clocks, the interval history, the BPM windows, the
\* last good value, the baseline, the gain estimate, the smoothing ring, the
\* running magnitude and the 3-sample window.
C4_AbsentPassSkipsPipeline ==
    [][(Pass /\ raw' < PRESENCE_FLOOR)
       => /\ outStatus' = "CALCULATING" /\ outBPM' = 0 /\ outConf' = 0
          /\ UNCHANGED <<beatState, bpmHistory, bpmHistIdx, bpmHistCount,
                         bpmAvgWindow, bpmAvgIdx, bpmAvgCount, lastGoodBPM,
                         dc, gainEstimate, smoothBuf, smoothPos, smoothFilled,
                         rms, prev2, prev1, curr>>]_vars

\* The last pass read a sample below the floor with a beat history in place.
C4_Witness ==
    /\ ticks > 0 /\ raw < PRESENCE_FLOOR /\ outStatus = "CALCULATING"
    /\ beatCount >= 1 /\ lastGoodBPM > 0 /\ dc > 0

\* The candidate 60000 / mean(interval history) is within [35, 200], exactly.
CandidateValid ==
    /\ beatCount > 0
    /\ MIN_VALID_BPM * SumTo(beatIntervals, beatCount) <= 60000 * beatCount
    /\ 60000 * beatCount <= MAX_VALID_BPM * SumTo(beatIntervals, beatCount)

\* C5: the record a pass prints follows the priority order: zeroed if raw < 30,
\* else OK if the candidate is valid, else FALLBACK if now - lastValidBeatTime <
\* 5000 and a previous good value exists, else zeroed.
C5_StatusPriority ==
    ticks > 0 =>
        outStatus = IF raw < PRESENCE_FLOOR THEN "CALCULATING"
                    ELSE IF CandidateValid THEN "OK"
                    ELSE IF now - lastValidBeatTime < FALLBACK_TIMEOUT_MS
                            /\ lastGoodBPM > 0
                         THEN "FALLBACK"
                    ELSE "CALCULATING"

\* C6: a FALLBACK record is printed only after an OK pass stored a non-zero
\* good value, and carries that value.
C6_FallbackHasGoodValue ==
    outStatus = "FALLBACK" =>
        bpmAvgCount > 0 /\ lastGoodBPM > 0 /\ EmittedUno(lastGoodBPM)

\* C7: a pass with raw >= 30 and no beat accepted for FALLBACK_TIMEOUT_MS or
\* more prints the zeroed record; after an OK reading, a pass still below the
\* timeout does not.
C7_TimeoutGivesNoSensor ==
    (ticks > 0 /\ raw >= PRESENCE_FLOOR) =>
        /\ now - lastValidBeatTime >= FALLBACK_TIMEOUT_MS => outStatus = "CALCULATING"
        /\ (bpmAvgCount > 0 /\ now - lastValidBeatTime < FALLBACK_TIMEOUT_MS)
              => outStatus # "CALCULATING"

\* C8: a FALLBACK pass prints the stored good value (the final BPM of the last OK
\* pass), and the value printed does not change from one FALLBACK pass to the
\* next.
C8_FallbackFreeze ==
    [][(Pass /\ outStatus' = "FALLBACK")
       => /\ outBPM' = TruncDiv(lastGoodBPM, 100)
          /\ outStatus = "FALLBACK" => outBPM' = outBPM]_vars

\* C9: after an absence longer than 60000/35 ms (the peak before this one came
\* later than that after the beat clock), a peak at a plausible spacing from the
\* peak before it is accepted: the beat clock advances to it.
C9_RecoveryAfterAbsence ==
    (/\ peak /\ lastBeatTime # 0 /\ lastPeakTime # 0
     /\ WithinBpmBounds(now - lastPeakTime)
     /\ (lastBeatTime = now
           \/ MIN_VALID_BPM * (lastPeakTime - lastBeatTime) > 60000))
    => lastBeatTime = now

\* C10: status moves from NO_SENSOR or FALLBACK to OK only on a pass that
\* accepts a beat interval.
C10_OkOnlyOnAcceptedInterval ==
    [][(status \in {"ST_NO_SENSOR", "ST_FALLBACK"} /\ status' = "ST_OK")
       => (lastBeatTime # 0 /\ lastBeatTime' = now' /\ lastBeatTime' # lastBeatTime)]_vars

\* The number of occupied slots of the median window below x, and at most x.
HistBelow(x) == Cardinality({i \in 0..(bpmHistCount - 1) : bpmHistory[i] < x})

HistAtMost(x) == Cardinality({i \in 0..(bpmHistCount - 1) : bpmHistory[i] <= x})

\* x is the n-th smallest of the occupied slots of the median window.
NthSmallest(x, n) ==
    /\ \E i \in 0..(bpmHistCount - 1) : bpmHistory[i] = x
    /\ HistBelow(x) <= n - 1
    /\ HistAtMost(x) >= n

\* C11 as stated: medianBPM returns the middle element of the sorted occupied
\* slots, the lower-middle one, the (k/2)-th smallest, on an even count k.
C11_MedianLowerMiddleOnEven ==
    bpmHistCount >= 1 =>
        NthSmallest(medianBPM(bpmHistory, bpmHistCount), (bpmHistCount + 1) \div 2)

\* C11 amended: medianBPM returns the middle element of the sorted occupied
\* slots, the upper-middle one, the (k/2 + 1)-th smallest, on an even count k.
C11_MedianUpperMiddleOnEven ==
    bpmHistCount >= 1 =>
        NthSmallest(medianBPM(bpmHistory, bpmHistCount), bpmHistCount \div 2 + 1)

\* Four occupied slots 60, 120, 72, 60: the middle pair is 60 and 72, the median 72.
C11_Witness ==
    /\ bpmHistCount = 4
    /\ bpmHistory[0] = 6000 /\ bpmHistory[1] = 12000
    /\ bpmHistory[2] = 7200 /\ bpmHistory[3] = 6000
    /\ medianBPM(bpmHistory, bpmHistCount) = 7200

\* After the pushes of log into a ring of cap slots, the fill count is
\* min(Len(log), cap) and every occupied slot holds one of the last cap values
\* pushed, each in its own slot: the occupied slots are exactly the most recent
\* min(Len(log), cap) values.
HoldsMostRecent(buf, cnt, log, cap) ==
    LET k == Len(log)
    IN  /\ cnt = IF k < cap THEN k ELSE cap
        /\ \A i \in 0..(cnt - 1) :
              \E p \in Max(1, k - cap + 1)..k : (p - 1) % cap = i /\ buf[i] = log[p]

\* C12: after any k pushes the interval ring, the median window and the average
\* window each hold exactly the min(k, capacity) most recently pushed values.
C12_RingsHoldMostRecent ==
    /\ HoldsMostRecent(beatIntervals, beatCount, pushedIntervals, BEAT_INTERVALS)
    /\ HoldsMostRecent(bpmHistory, bpmHistCount, pushedBpm, BPM_MEDIAN_WINDOW)
    /\ HoldsMostRecent(bpmAvgWindow, bpmAvgCount, pushedBpm, BPM_AVG_WINDOW)

\* capacity + 1 values were pushed into the interval ring and the average window:
\* the oldest of each is gone.
C12_Witness ==
    /\ Len(pushedIntervals) = BEAT_INTERVALS + 1 /\ beatCount = BEAT_INTERVALS
    /\ beatIntervals[0] = pushedIntervals[BEAT_INTERVALS + 1]
    /\ Len(pushedBpm) = BPM_AVG_WINDOW + 1 /\ bpmAvgCount = BPM_AVG_WINDOW
    /\ pushedBpm[1] = 6000 /\ bpmAvgWindow[0] = 12000

\* After k pushes into a ring of cap slots the cursor idx and the fill count cnt
\* are in range, and every slot below cnt (the slots computeBPM, medianBPM and
\* avgBPM read) was written by one of the pushes.
CursorInRange(idx, cnt, k, cap) ==
    /\ 0 <= idx /\ idx < cap
    /\ 0 <= cnt /\ cnt <= cap
    /\ \A i \in 0..(cnt - 1) : \E p \in 1..k : (p - 1) % cap = i

\* C13: each ring's cursor is within 0..capacity-1, its fill count within
\* 0..capacity, and the slots below the fill count have all been written.
C13_CursorsAndCountsInRange ==
    /\ CursorInRange(beatIndex, beatCount, Len(pushedIntervals), BEAT_INTERVALS)
    /\ CursorInRange(bpmHistIdx, bpmHistCount, Len(pushedBpm), BPM_MEDIAN_WINDOW)
    /\ CursorInRange(bpmAvgIdx, bpmAvgCount, Len(pushedBpm), BPM_AVG_WINDOW)

\* Every ring has wrapped: it is full and its cursor has passed slot 0 again.
C13_Witness ==
    /\ beatIndex = 1 /\ beatCount = BEAT_INTERVALS
    /\ bpmHistIdx = 4 /\ bpmHistCount = BPM_MEDIAN_WINDOW
    /\ bpmAvgIdx = 1 /\ bpmAvgCount = BPM_AVG_WINDOW

\* The sum of the last n values of log.
SumOfLast(log, n) ==
    SumTo([i \in 0..(n - 1) |-> log[Len(log) - n + 1 + i]], n)

\* C14: after its k-th call smoothAvg has returned the mean of the last
\* min(k, 5) values pushed, and the divisor it computed is not zero.
C14_SmoothAvgIsMeanOfRecent ==
    Len(pushedSmooth) >= 1 =>
        LET k == Len(pushedSmooth)
            n == IF k < SMOOTH_WIN THEN k ELSE SMOOTH_WIN
        IN  /\ smoothOut = TruncDiv(SumOfLast(pushedSmooth, n) * 100, n)
            /\ smoothFilled \/ smoothPos >= 1
            /\ smoothFilled <=> k >= SMOOTH_WIN

\* The fifth call has just filled the ring: the mean is over five values.
C14_Witness ==
    /\ Len(pushedSmooth) = SMOOTH_WIN /\ smoothFilled /\ smoothPos = 0
    /\ pushedSmooth = <<10, 10, 10, 10, -7>> /\ smoothOut = 660

\* C15: every pass of loop() prints exactly one record, whichever branch it takes.
C15_OneRecordPerPass == ticks > 0 => records = 1

\* The last pass took the timeout branch: raw >= 30, no valid candidate, no beat
\* for FALLBACK_TIMEOUT_MS; it printed the zeroed record, once.
C15_Witness ==
    /\ ticks > 0 /\ raw >= PRESENCE_FLOOR /\ beatCount = 0
    /\ now - lastValidBeatTime >= FALLBACK_TIMEOUT_MS
    /\ outStatus = "CALCULATING" /\ records = 1

\* The aggregator output over the windows as they stand: 0.6 * mean + 0.4 * median.
AggregatorEsp ==
    Blend(avgBPM(bpmAvgWindow, bpmAvgCount), medianBPM(bpmHistory, bpmHistCount))

\* C16: on an OK pass the BPM printed is the aggregator output rounded to an
\* integer, and lastGoodBPM holds that aggregator output.
C16_OkEmitsAggregatorOutput ==
    (ticks > 0 /\ outStatus = "OK") =>
        /\ lastGoodBPM = AggregatorEsp
        /\ outBPM = LRound(AggregatorEsp)

\* The interval ring and both BPM windows are full.
RingsFilled ==
    /\ beatCount = BEAT_INTERVALS
    /\ bpmHistCount = BPM_MEDIAN_WINDOW /\ bpmAvgCount = BPM_AVG_WINDOW

\* C17: with the rings full of one period T, 35 <= 60000/T <= 200, a pass with
\* raw >= 30 prints status OK and a BPM within 2 % of 60000/T.
C17_PeriodicInputConverges ==
    LET T == beatIntervals[0]
    IN  (/\ ticks > 0 /\ raw >= PRESENCE_FLOOR /\ RingsFilled
         /\ \A i \in 0..(BEAT_INTERVALS - 1) : beatIntervals[i] = T
         /\ WithinBpmBounds(T))
        => /\ outStatus = "OK"
           /\ 50 * Abs(outBPM * T - 60000) <= 60000

\* C18: every pass of loop() lasts at least SAMPLE_MS, whichever branch it takes.
C18_PassLastsSamplePeriod == [][Pass => clock' - now' >= SAMPLE_MS]_vars

\* C19: after every pass the status variable is the status of the record the
\* pass printed: ST_NO_SENSOR with the zeroed record, ST_OK with OK, ST_FALLBACK
\* with FALLBACK.
C19_StatusMatchesRecord ==
    ticks > 0 =>
        status = CASE outStatus = "OK" -> "ST_OK"
                   [] outStatus = "FALLBACK" -> "ST_FALLBACK"
                   [] OTHER -> "ST_NO_SENSOR"

\* C20: status is never ST_LOW_CONF: it is ST_OK, ST_FALLBACK or ST_NO_SENSOR.
C20_StatusNeverLowConf ==
    status # "ST_LOW_CONF" /\ status \in {"ST_OK", "ST_FALLBACK", "ST_NO_SENSOR"}

\* Passes have run and the status has been both assigned ST_OK and printed.
C20_Witness == ticks > 1 /\ status = "ST_OK" /\ outStatus = "OK"

\* The confidence percentage that goes with a printed status, okConf being the
\* sketch's constant for OK.
ConfidenceOf(st, okConf) ==
    CASE st = "OK" -> okConf
      [] st = "FALLBACK" -> 60
      [] OTHER -> 0

\* C21: the confidence printed is a fixed function of the status printed: 80 in
\* Pulsebyuno (85 in Espbpm) with OK, 60 with FALLBACK, 0 with the zeroed record;
\* it is within 0..100.
C21_ConfidenceFollowsStatus ==
    ticks > 0 =>
        /\ outConf = ConfidenceOf(outStatus, 80)
        /\ 0 <= outConf /\ outConf <= 100

\* An OK record at confidence 80 right after a FALLBACK pass.
C21_Witness ==
    /\ ticks > 1 /\ outStatus = "OK" /\ outConf = 80 /\ status = "ST_OK"

\* The claim's critical condition, on what the last periodic check read.
CriticalDetected ==
    \/ spo2Valid /\ spo2Value < 92
    \/ bpmValid /\ (bpmValue < 45 \/ bpmValue > 130)
    \/ ~tempC.nan /\ tempC.val > 380

\* C22: two caretaker notifications are never less than 60 s (60000 ms) apart,
\* two doctor notifications never less than 120 s apart.
C22_AlertsRateLimited ==
    /\ caretakerBefore >= 0 => caretakerAt - caretakerBefore >= 60000
    /\ doctorBefore >= 0 => doctorAt - doctorBefore >= 120000

\* C23: a periodic check that detects a critical condition sends the caretaker
\* notification unless one was sent in the 60 s before it, and the doctor
\* notification unless one was sent in the 120 s before it; with none sent since
\* boot it sends.
C23_CriticalCheckNotifies ==
    checks > 0 /\ CriticalDetected =>
        /\ caretakerSent \/ (caretakerAt >= 0 /\ millis - caretakerAt < 60000)
        /\ doctorSent \/ (doctorAt >= 0 /\ millis - doctorAt < 120000)

\* C24: every periodicTask that is started returns to loop().
C24_PeriodicTaskTerminates ==
    (taskPc \in {"poll", "delay"}) ~> (taskPc = "loop")

\* The interval ring of a pass.
intervalRing == <<beatIntervals, beatIndex, beatCount>>

\* C25: the first accepted peak (lastBeatTime = 0) only anchors the beat clock,
\* whatever its time: lastBeatTime and lastValidBeatTime become now and no interval
\* is stored. Every later accepted beat stores exactly one interval and nothing
\* else stores any, so the intervals pushed number the accepted beats less one.
C25_FirstPeakOnlyAnchors ==
    [][Pass =>
        /\ lastBeatTime = 0 => beatCount = 0
        /\ lastBeatTime = 0 /\ peak' /\ now' > MIN_BEAT_MS =>
               /\ lastBeatTime' = now' /\ lastValidBeatTime' = now'
               /\ UNCHANGED intervalRing
        /\ lastBeatTime # 0 /\ lastBeatTime' # lastBeatTime =>
               /\ lastBeatTime' = now'
               /\ beatIntervals' =
                      [beatIntervals EXCEPT ![beatIndex] = now' - lastBeatTime]
               /\ beatIndex' = (beatIndex + 1) % BEAT_INTERVALS
               /\ beatCount' = IF beatCount < BEAT_INTERVALS
                               THEN beatCount + 1 ELSE beatCount
        /\ lastBeatTime' = lastBeatTime => UNCHANGED intervalRing]_vars

\* The first peak was accepted later than any plausible interval after boot, and
\* no interval is stored.
C25_Witness ==
    /\ lastBeatTime = now /\ lastValidBeatTime = now
    /\ now * MIN_VALID_BPM > 60000
    /\ beatCount = 0 /\ peak

C28_NoSecondInterval ==
    [][/\ beatCount <= 1
       /\ beatCount > 0 => UNCHANGED <<intervalRing, lastBeatTime>>]_vars

\* A gated peak after the first stored interval, rejected.
C28_Witness ==
    /\ beatCount = 1 /\ peak /\ raw >= PRESENCE_FLOOR
    /\ now - lastBeatTime > MIN_BEAT_MS

\* The fill count of a window of capacity cap after one more push.
CountAfterPush(cnt, cap) == IF cnt < cap THEN cnt + 1 ELSE cap

\* The candidate BPM of the stored intervals.
Candidate == computeBPM(beatIntervals, beatCount)

\* Both BPM windows are full of the value v, and so are their mean, their median
\* and the blend of the two.
WindowsSettledOn(v) ==
    /\ \A k \in 0..(BPM_MEDIAN_WINDOW - 1) : bpmHistory[k] = v
    /\ \A k \in 0..(BPM_AVG_WINDOW - 1) : bpmAvgWindow[k] = v
    /\ avgBPM(bpmAvgWindow, bpmAvgCount) = v
    /\ medianBPM(bpmHistory, bpmHistCount) = v
    /\ Blend(avgBPM(bpmAvgWindow, bpmAvgCount),
             medianBPM(bpmHistory, bpmHistCount)) = v
    /\ lastGoodBPM = v

\* C29: the median and the average window take one value, the candidate, per OK
\* pass and none on any other pass, so their fill counts are the number of OK
\* passes capped at 5 and 8; once eight OK passes have gone by with no new
\* interval (Espbpm stores none after its first) every slot, the mean, the median
\* and the blended final BPM equal the candidate.
C29_WindowsAdvancePerOkPass ==
    [][Pass =>
        IF outStatus' = "OK"
        THEN /\ bpmHistCount' = CountAfterPush(bpmHistCount, BPM_MEDIAN_WINDOW)
             /\ bpmAvgCount' = CountAfterPush(bpmAvgCount, BPM_AVG_WINDOW)
             /\ bpmHistory'[bpmHistIdx] = Candidate'
             /\ bpmAvgWindow'[bpmAvgIdx] = Candidate'
             /\ bpmAvgCount' = BPM_AVG_WINDOW => WindowsSettledOn(Candidate)'
        ELSE UNCHANGED <<bpmHistory, bpmHistIdx, bpmHistCount,
                         bpmAvgWindow, bpmAvgIdx, bpmAvgCount>>]_vars

\* The eighth OK pass and later: both windows full, the final BPM the candidate.
C29_Witness ==
    /\ outStatus = "OK" /\ bpmHistCount = BPM_MEDIAN_WINDOW
    /\ bpmAvgCount = BPM_AVG_WINDOW
    /\ Candidate > 0 /\ WindowsSettledOn(Candidate)

\* C30: a record printed with status OK or FALLBACK carries a BPM within
\* MIN_VALID_BPM..MAX_VALID_BPM; a BPM outside it, 0 in particular, comes only
\* with the zeroed record.
C30_PrintedBpmInRange ==
    outStatus \in {"OK", "FALLBACK"} =>
        MIN_VALID_BPM <= outBPM /\ outBPM <= MAX_VALID_BPM

C32_BeatClocksEqual == lastBeatTime = lastValidBeatTime

\* The clocks were anchored by a first peak, and a later gated peak, too late to
\* be plausible, moved neither.
C32_Witness ==
    /\ lastBeatTime > 0 /\ lastValidBeatTime = lastBeatTime /\ beatCount = 0
    /\ peak /\ now - lastBeatTime > MIN_BEAT_MS
    /\ ~plausibleInterval(now - lastBeatTime)

\* C33: at the end of every pass of Espbpmwithdelay on which no alarm is active
\* (a pass that printed zeros, for raw < 30 or for NO_SENSOR after the timeout,
\* or a pass whose finalBPM was within [50, 120]) the buzzer pin is LOW and
\* buzzerOn is false; so the pin is HIGH only after a pass whose alarm test held.
C33_NoAlarm ==
    \/ outStatus = "CALCULATING"
    \/ alarmBPM >= BPM_ALERT_LOW * 100 /\ alarmBPM <= BPM_ALERT_HIGH * 100

C33_BuzzerSilentWithoutAlarm ==
    /\ ticks > 0 /\ C33_NoAlarm => buzzerPin = "LOW" /\ ~buzzerOn
    /\ buzzerPin = "HIGH" => alarmActive /\ ~C33_NoAlarm

\* The sample falls under the presence floor after OK passes that all tested a
\* finalBPM above the high limit (the lowest jitter of lastGoodBPM is above it).
C33_Witness ==
    /\ ticks > 0 /\ C33_NoAlarm /\ buzzerPin = "LOW" /\ ~buzzerOn
    /\ buzzerCycleStart = 0 /\ raw < PRESENCE_FLOOR
    /\ JitterEsp(lastGoodBPM, -1) > BPM_ALERT_HIGH * 100

\* C34: while the alarm stays active the pin is never continuously HIGH for
\* longer than BUZZ_ON_MS: when a pass's handleBuzzer leaves the pin HIGH, the
\* pin rose at most BUZZ_ON_MS before.
C34_BeepAtMostOnMs ==
    buzzerPin = "HIGH" => now - buzzerHighSince <= BUZZ_ON_MS

\* C35: a periodic check in which no valid reading crosses its threshold (an
\* invalid BPM or SpO2 and a NaN temperature count for nothing, whatever value
\* they hold) sends no notification, writes no alert pin and leaves
\* lastCaretakerAlert and lastDoctorAlert unchanged.
C35_QuietWithoutCritical ==
    [][checks' # checks /\ ~CriticalDetected' =>
          /\ ~caretakerSent' /\ ~doctorSent' /\ ~alertWritten'
          /\ UNCHANGED <<lastCaretakerAlert, lastDoctorAlert>>]_vars

\* A quiet check whose invalid BPM reading holds a value under BPM_LOW, after a
\* check that did notify.
C35_Witness ==
    /\ checks > 1 /\ ~CriticalDetected
    /\ ~bpmValid /\ bpmValue < BPM_LOW
    /\ ~caretakerSent /\ ~doctorSent /\ ~alertWritten
    /\ lastCaretakerAlert > 0

\* C36: the peaks counted by maxim_heart_rate_and_oxygen_saturation are the
\* upward zero crossings of the DC-removed IR signal: the indices i from 1 on
\* where sample[i] - mean > 0 and sample[i-1] - mean <= 0 as signed values of
\* the uint32_t differences.
C36_PeaksAreUpwardCrossings ==
    peaks >= 0 =>
        peaks = Cardinality({i \in 2..Len(irAc) :
                                Signed32(irAc[i]) > 0 /\ Signed32(irAc[i - 1]) <= 0})

\* C37: in BPM_BLOOD_OXYGEN1 an interval is stored, and a beat registered, only
\* on a pass where the filtered signal goes from not above to above the
\* threshold, and an interval only when more than 300 ms have passed since the
\* beat before; one pass stores at most one interval; every stored interval is
\* over 300 ms, and the BPM printed is 0 or under 200.
C37_EdgeStoresOnlyPastRefractory ==
    [][/\ lastBeat' # lastBeat => isAbove' /\ ~wasAbove
       /\ <<edgeIntervals, edgeIndex, beatsStored>>' #
              <<edgeIntervals, edgeIndex, beatsStored>> =>
              /\ isAbove' /\ ~wasAbove
              /\ lastBeat # 0 /\ edgeNow' - lastBeat > 300
              /\ lastBeat' = edgeNow'
              /\ edgeIndex' = (edgeIndex + 1) % BEAT_BUF
              /\ beatsStored' <= beatsStored + 1
              /\ edgeIntervals' =
                     [edgeIntervals EXCEPT ![edgeIndex] = edgeNow' - lastBeat]
       /\ \A k \in 0..(beatsStored' - 1) : edgeIntervals'[k] > 300
       /\ edgeBpm' = 0 \/ edgeBpm' < 200]_vars

\* A pass that stored a second interval and printed the BPM of the two.
C37_Witness ==
    /\ beatsStored = 2 /\ lastBeat = edgeNow /\ isAbove
    /\ edgeIntervals[0] > 300 /\ edgeIntervals[1] > 300
    /\ edgeBpm > 0 /\ edgeBpm < 200

====
